---------------------------- MODULE Spec2Model ----------------------------
(***************************************************************************)
(* The board simulation of Game.cpp: the 9x9 grid, the ship, score, lives, *)
(* the game_over flag and the two pending-direction flags, driven by       *)
(* Game::handle_event and Game::update.                                    *)
(*                                                                         *)
(* rand() is a deterministic generator seeded once (srand, line 208) and   *)
(* shared by the constructor and every update.  It is modelled as a        *)
(* cursor into one of a few cyclic streams of raw values; the seed chosen  *)
(* at construction selects the stream.  Every use of a raw value applies   *)
(* the same reduction as the code (% 3 + 1, % 2, % 9), and the rejection   *)
(* loops consume the stream draw by draw.                                  *)
(***************************************************************************)
EXTENDS Integers, Sequences, FiniteSets

VARIABLES
    board,      \* board[x][y]: column x, row y
    ship_x,
    ship_y,
    score,
    lives,
    game_over,
    controls,   \* [left, right]
    rng,        \* [seed, pos]: the hidden state of rand()
    call,       \* history: the last call made on the Game object
    old,        \* history: the program state when that call was entered
    fill,       \* the row being populated, where the loops are followed draw by draw
    keys        \* history: what each arrow key has done since the last update

vars ==
    <<board, ship_x, ship_y, score, lives, game_over, controls, rng, call, old, fill, keys>>

----------------------------------------------------------------------------
(* Cell values. *)
EMPTY == -1
SHIP == 0
STAR == 1
BLOCK == 2

(* The score at which the game is won. *)
WinScore == 49

(* Game.hpp: glm::uvec2 board_size. *)
board_size_x == 9
board_size_y == 9

(* Game.hpp: the initial values of the counters and of the flag. *)
InitScore == 0
InitGameOver == 0

(* Bounds of the model. *)
NumSeeds == 2
MaxLives == 3
MaxRaw == 8

Columns == 0 .. (board_size_x - 1)
Rows == 0 .. (board_size_y - 1)

----------------------------------------------------------------------------
(* rand(): raw values, in the order the generator returns them; a stream   *)
(* is read cyclically.                                                     *)
Streams ==
    << \* seed 1: rows { BLOCK 2; STAR 4 }, { BLOCK 7 8 5; STAR 3 }
       << 3, 1, 2, 11, 4,
          5, 7, 16, 7, 8, 14, 17, 3 >>,
       \* seed 2: rows { BLOCK 6 3; STAR 5 }, { BLOCK 4; STAR 8 }, { BLOCK 1 3 5 }
       << 1, 1, 6, 15, 3, 12, 5,
          9, 5, 13, 22, 8,
          8, 2, 1, 3, 5 >>,
       \* seed 3: not a whole number of rows: the rows differ from cycle to cycle
       << 14, 3, 7, 22, 5, 18, 31 >> >>

Seeds == 1 .. NumSeeds

Rand(r) == Streams[r.seed][r.pos + 1]

Advance(r) == [r EXCEPT !.pos = (r.pos + 1) % Len(Streams[r.seed])]

BlocksDrawnFour(v) == (v % 4) + 1

(* int blocks = rand()%3+1; *)
BlocksDrawn(v) == (v % 3) + 1

StarsDrawnThree(v) == v % 3

(* int stars = rand()%2; *)
StarsDrawn(v) == v % 2

(* num = rand() % 9; *)
ColumnDrawn(v) == v % 9

(* for (j < n) { do { num = rand() % 9; } while (board[num][row] != -1);   *)
(*               board[num][row] = kind; }                                 *)
RECURSIVE Place(_, _, _, _, _)
Place(b, row, n, kind, r) ==
    IF n <= 0
    THEN [board |-> b, rng |-> r]
    ELSE LET num == ColumnDrawn(Rand(r))
         IN  IF b[num][row] # EMPTY
             THEN Place(b, row, n, kind, Advance(r))
             ELSE Place([b EXCEPT ![num][row] = kind], row, n - 1, kind, Advance(r))

(* The two placement loops of one row: blocks first, then stars. *)
Populate(b, row, blocks, stars, r) ==
    LET withBlocks == Place(b, row, blocks, BLOCK, r)
    IN  Place(withBlocks.board, row, stars, STAR, withBlocks.rng)

(* One iteration of the constructor's fill loop. *)
FillRow(b, row, r) ==
    LET blocks == BlocksDrawn(Rand(r))
        stars == StarsDrawn(Rand(Advance(r)))
    IN  Populate(b, row, blocks, stars, Advance(Advance(r)))

(* for (i = 2; i < board_size.y; i++) ... *)
RECURSIVE FillFrom(_, _, _)
FillFrom(b, row, r) ==
    IF row >= board_size_y
    THEN [board |-> b, rng |-> r]
    ELSE LET filled == FillRow(b, row, r)
         IN  FillFrom(filled.board, row + 1, filled.rng)

GameFillFromOne(r) == FillFrom([[i \in Columns |-> [j \in Rows |-> EMPTY]] EXCEPT ![4][0] = SHIP], 1, r)

(* The board the constructor builds: all EMPTY, the ship at (4, 0), rows   *)
(* 2..8 filled.                                                            *)
ClearedBoard == [i \in Columns |-> [j \in Rows |-> EMPTY]]

Game(r) == FillFrom([ClearedBoard EXCEPT ![4][0] = SHIP], 2, r)

----------------------------------------------------------------------------
(* SDL events as handle_event reads them. *)
Events ==
    [type : {"SDL_KEYDOWN"}, repeat : {0, 1},
     scancode : {"SDL_SCANCODE_LEFT", "SDL_SCANCODE_RIGHT", "SDL_SCANCODE_A"}]
    \cup
    [type : {"SDL_KEYUP"}, repeat : {0},
     scancode : {"SDL_SCANCODE_LEFT", "SDL_SCANCODE_RIGHT", "SDL_SCANCODE_A"}]
    \cup
    [type : {"SDL_MOUSEMOTION"}, repeat : {0}, scancode : {"none"}]

NoEvent == [type |-> "none", repeat |-> 0, scancode |-> "none"]

handle_eventNoRepeatTest(c, evt) ==
    IF evt.type = "SDL_KEYDOWN" \/ evt.type = "SDL_KEYUP"
    THEN IF evt.scancode = "SDL_SCANCODE_LEFT"
         THEN [controls |-> [c EXCEPT !.left = (evt.type = "SDL_KEYDOWN")], ret |-> TRUE]
         ELSE IF evt.scancode = "SDL_SCANCODE_RIGHT"
              THEN [controls |-> [c EXCEPT !.right = (evt.type = "SDL_KEYDOWN")],
                    ret |-> TRUE]
              ELSE [controls |-> c, ret |-> FALSE]
    ELSE [controls |-> c, ret |-> FALSE]

handle_eventKeyUpIgnored(c, evt) ==
    IF evt.type = "SDL_KEYDOWN" /\ evt.repeat # 0
    THEN [controls |-> c, ret |-> FALSE]
    ELSE IF evt.type = "SDL_KEYDOWN"
         THEN IF evt.scancode = "SDL_SCANCODE_LEFT"
              THEN [controls |-> [c EXCEPT !.left = TRUE], ret |-> TRUE]
              ELSE IF evt.scancode = "SDL_SCANCODE_RIGHT"
                   THEN [controls |-> [c EXCEPT !.right = TRUE], ret |-> TRUE]
                   ELSE [controls |-> c, ret |-> FALSE]
         ELSE [controls |-> c, ret |-> FALSE]

(* Game::handle_event: the controls it leaves and the value it returns. *)
handle_event(c, evt) ==
    IF evt.type = "SDL_KEYDOWN" /\ evt.repeat # 0
    THEN [controls |-> c, ret |-> FALSE]
    ELSE IF evt.type = "SDL_KEYDOWN" \/ evt.type = "SDL_KEYUP"
         THEN IF evt.scancode = "SDL_SCANCODE_LEFT"
              THEN [controls |-> [c EXCEPT !.left = (evt.type = "SDL_KEYDOWN")],
                    ret |-> TRUE]
              ELSE IF evt.scancode = "SDL_SCANCODE_RIGHT"
                   THEN [controls |-> [c EXCEPT !.right = (evt.type = "SDL_KEYDOWN")],
                         ret |-> TRUE]
                   ELSE [controls |-> c, ret |-> FALSE]
         ELSE [controls |-> c, ret |-> FALSE]

----------------------------------------------------------------------------
(* What the events delivered since the last update say about one key:      *)
(*   "down"  its last transition is a non-repeat key-down;                 *)
(*   "tap"   a non-repeat key-down and then its key-up;                    *)
(*   "held"  it was down when an update ran, and only auto-repeat          *)
(*           key-downs (or nothing) came from it since;                    *)
(*   "none"  otherwise.                                                    *)
(* A key that is not watched stays "unwatched".                            *)
NoKeys == [left |-> "unwatched", right |-> "unwatched"]

KeysUp == [left |-> "none", right |-> "none"]

KeyAfterEvent(k, evt, scancode) ==
    IF k = "unwatched" \/ evt.scancode # scancode
    THEN k
    ELSE IF evt.type = "SDL_KEYDOWN"
         THEN IF evt.repeat = 0 THEN "down" ELSE k
         ELSE IF evt.type = "SDL_KEYUP"
              THEN IF k = "down" THEN "tap" ELSE "none"
              ELSE k

KeyAfterUpdate(k) ==
    IF k \in {"down", "held"} THEN "held" ELSE IF k = "unwatched" THEN k ELSE "none"

KeysAfterEvent(ks, evt) ==
    [left |-> KeyAfterEvent(ks.left, evt, "SDL_SCANCODE_LEFT"),
     right |-> KeyAfterEvent(ks.right, evt, "SDL_SCANCODE_RIGHT")]

KeysAfterUpdate(ks) ==
    [left |-> KeyAfterUpdate(ks.left), right |-> KeyAfterUpdate(ks.right)]

----------------------------------------------------------------------------
(* Game::update, piece by piece. *)

(* if (game_over == 1) return; *)
IsOverNever(g) == FALSE

IsOver(g) == g = 1

(* if (controls.left == true && ship_x != 0) *)
MovesLeft(c, x) == c.left = TRUE /\ x # 0

MovesRightUnasked(c, x) == ~MovesLeft(c, x) /\ x # board_size_x - 1

MovesRightNoElse(c, x) == c.right = TRUE /\ x # board_size_x - 1

(* else if (controls.right == true && ship_x != board_size.x - 1) *)
MovesRight(c, x) == ~MovesLeft(c, x) /\ c.right = TRUE /\ x # board_size_x - 1

MoveShipNoClear(b, x, y, nx) == [b EXCEPT ![nx][y] = SHIP]

(* board[ship_x][ship_y] = -1; ship_x--/++; board[ship_x][ship_y] = 0; *)
MoveShip(b, x, y, nx) == [[b EXCEPT ![x][y] = EMPTY] EXCEPT ![nx][y] = SHIP]

ScoreAfterRowTwo(b, x, y, s) == IF b[x][y + 2] = STAR THEN s + 1 ELSE s

(* if (board[ship_x][ship_y + 1] == 1) score++; *)
ScoreAfter(b, x, y, s) == IF b[x][y + 1] = STAR THEN s + 1 ELSE s

LivesAfterRowTwo(b, x, y, l) == IF b[x][y + 2] = BLOCK THEN l - 1 ELSE l

(* if (board[ship_x][ship_y + 1] == 2) lives--; *)
LivesAfter(b, x, y, l) == IF b[x][y + 1] = BLOCK THEN l - 1 ELSE l

GameOverAfterHitNever(b, x, y, l, g) == g

(* ... if (lives == 0) game_over = 1;  -- only inside the BLOCK branch *)
GameOverAfterHit(b, x, y, l, g) ==
    IF b[x][y + 1] = BLOCK /\ LivesAfter(b, x, y, l) = 0 THEN 1 ELSE g

ShiftDownFromOne(b) ==
    [i \in Columns |->
        [j \in Rows |-> IF j + 1 >= 1 /\ j + 1 < board_size_y THEN b[i][j + 1] ELSE b[i][j]]]

(* for (j = 2; j < board_size.y; j++) board[i][j-1] = board[i][j]; *)
ShiftDown(b) ==
    [i \in Columns |->
        [j \in Rows |-> IF j + 1 >= 2 /\ j + 1 < board_size_y THEN b[i][j + 1] ELSE b[i][j]]]

ClearTopNothing(b) == b

(* for (j < board_size.x) board[j][8] = -1; *)
ClearTop(b) == [i \in Columns |-> [b[i] EXCEPT ![8] = EMPTY]]

(* The draws, the clearing and the two placement loops of row 8. *)
Respawn(b, r) ==
    LET blocks == BlocksDrawn(Rand(r))
        stars == StarsDrawn(Rand(Advance(r)))
    IN  Populate(ClearTop(b), 8, blocks, stars, Advance(Advance(r)))

GameOverAfterWinLate(s, g) == IF s = WinScore + 1 THEN 1 ELSE g

(* if (score == 49) game_over = 1; *)
GameOverAfterWin(s, g) == IF s = WinScore THEN 1 ELSE g

(* No row is being followed draw by draw. *)
NoFill ==
    [site |-> "none", pc |-> "done", row |-> 0, cells |-> [i \in Columns |-> EMPTY],
     blocks |-> 0, stars |-> 0, j |-> 0, num |-> 0, last |-> "none"]

Snapshot ==
    [board |-> board, ship_x |-> ship_x, ship_y |-> ship_y, score |-> score,
     lives |-> lives, game_over |-> game_over, controls |-> controls, rng |-> rng,
     keys |-> keys]

NoControls == [left |-> FALSE, right |-> FALSE]

----------------------------------------------------------------------------
Init ==
    /\ \E seed \in Seeds :
          LET built == Game([seed |-> seed, pos |-> 0])
          IN  /\ board = built.board
              /\ rng = built.rng
    /\ ship_x = 4
    /\ ship_y = 0
    /\ score = InitScore
    /\ lives \in 1 .. MaxLives
    /\ game_over = InitGameOver
    /\ controls = NoControls
    /\ keys = NoKeys
    /\ call = [op |-> "Game", evt |-> NoEvent, ret |-> FALSE]
    /\ old = [board |-> board, ship_x |-> ship_x, ship_y |-> ship_y, score |-> score,
              lives |-> lives, game_over |-> game_over, controls |-> controls,
              rng |-> rng, keys |-> keys]
    /\ fill = NoFill

HandleEvent(evt) ==
    LET handled == handle_event(controls, evt)
    IN  /\ controls' = handled.controls
        /\ call' = [op |-> "handle_event", evt |-> evt, ret |-> handled.ret]
        /\ old' = Snapshot
        /\ keys' = KeysAfterEvent(keys, evt)
        /\ UNCHANGED <<board, ship_x, ship_y, score, lives, game_over, rng, fill>>

(* The body shared by the two branches of update: nx is the new ship_x. *)
StepKeepsControls(nx) ==
    LET moved == MoveShip(board, ship_x, ship_y, nx)
        spawned == Respawn(ShiftDown(moved), rng)
    IN  /\ ship_x' = nx
        /\ score' = ScoreAfter(moved, nx, ship_y, score)
        /\ lives' = LivesAfter(moved, nx, ship_y, lives)
        /\ board' = spawned.board
        /\ rng' = spawned.rng
        /\ game_over' = GameOverAfterWin(score', GameOverAfterHit(moved, nx, ship_y, lives, game_over))
        /\ UNCHANGED controls

Step(nx) ==
    LET moved == MoveShip(board, ship_x, ship_y, nx)
        spawned == Respawn(ShiftDown(moved), rng)
    IN  /\ ship_x' = nx
        /\ score' = ScoreAfter(moved, nx, ship_y, score)
        /\ lives' = LivesAfter(moved, nx, ship_y, lives)
        /\ board' = spawned.board
        /\ rng' = spawned.rng
        /\ game_over' = GameOverAfterWin(score', GameOverAfterHit(moved, nx, ship_y, lives, game_over))
        /\ controls' = NoControls

UpdateHistory ==
    /\ call' = [op |-> "update", evt |-> NoEvent, ret |-> FALSE]
    /\ old' = Snapshot
    /\ keys' = KeysAfterUpdate(keys)
    /\ UNCHANGED fill

(* if (game_over == 1) return; *)
UpdateGameOver ==
    /\ IsOver(game_over)
    /\ UpdateHistory
    /\ UNCHANGED <<board, ship_x, ship_y, score, lives, game_over, controls, rng>>

UpdateLeft ==
    /\ ~IsOver(game_over)
    /\ MovesLeft(controls, ship_x)
    /\ Step(ship_x - 1)
    /\ UpdateHistory
    /\ UNCHANGED ship_y

UpdateRight ==
    /\ ~IsOver(game_over)
    /\ MovesRight(controls, ship_x)
    /\ Step(ship_x + 1)
    /\ UpdateHistory
    /\ UNCHANGED ship_y

UpdateIdleShifts ==
    /\ ~IsOver(game_over)
    /\ ~MovesLeft(controls, ship_x)
    /\ ~MovesRight(controls, ship_x)
    /\ LET spawned == Respawn(ShiftDown(board), rng)
       IN  board' = spawned.board /\ rng' = spawned.rng
    /\ game_over' = GameOverAfterWin(score, game_over)
    /\ controls' = NoControls
    /\ UpdateHistory
    /\ UNCHANGED <<ship_x, ship_y, score, lives>>

UpdateIdleKeepsControls ==
    /\ ~IsOver(game_over)
    /\ ~MovesLeft(controls, ship_x)
    /\ ~MovesRight(controls, ship_x)
    /\ game_over' = GameOverAfterWin(score, game_over)
    /\ UpdateHistory
    /\ UNCHANGED <<board, ship_x, ship_y, score, lives, controls, rng>>

UpdateIdle ==
    /\ ~IsOver(game_over)
    /\ ~MovesLeft(controls, ship_x)
    /\ ~MovesRight(controls, ship_x)
    /\ game_over' = GameOverAfterWin(score, game_over)
    /\ controls' = NoControls
    /\ UpdateHistory
    /\ UNCHANGED <<board, ship_x, ship_y, score, lives, rng>>

Update == UpdateGameOver \/ UpdateLeft \/ UpdateRight \/ UpdateIdle

Next == Update \/ \E evt \in Events : HandleEvent(evt)

Spec == Init /\ [][Next]_vars

(* The same program with the two arrow keys watched, from the board the    *)
(* constructor builds out of the first stream.                             *)
InitKeys ==
    /\ LET built == Game([seed |-> 1, pos |-> 0])
       IN  /\ board = built.board
           /\ rng = built.rng
    /\ ship_x = 4
    /\ ship_y = 0
    /\ score = InitScore
    /\ lives \in 1 .. MaxLives
    /\ game_over = InitGameOver
    /\ controls = NoControls
    /\ keys = KeysUp
    /\ call = [op |-> "Game", evt |-> NoEvent, ret |-> FALSE]
    /\ old = [board |-> board, ship_x |-> ship_x, ship_y |-> ship_y, score |-> score,
              lives |-> lives, game_over |-> game_over, controls |-> controls,
              rng |-> rng, keys |-> keys]
    /\ fill = NoFill

SpecKeys == InitKeys /\ [][Next]_vars

----------------------------------------------------------------------------
(* The population of a row, one rand() call at a time: the constructor's   *)
(* rows 2..8 in turn, then the respawns of row 8.  Here rand() may return  *)
(* any raw value of RawValues at every call.                               *)
RawValues == 0 .. MaxRaw

EmptyRow == [i \in Columns |-> EMPTY]

(* Where the loops go after cell num of the row has been set: the next     *)
(* iteration, the star loop, or out.                                       *)
AfterPlacing(f) ==
    IF f.pc = "blocks"
    THEN IF f.j + 1 < f.blocks
         THEN [f EXCEPT !.j = f.j + 1]
         ELSE IF 0 < f.stars
              THEN [f EXCEPT !.pc = "stars", !.j = 0]
              ELSE [f EXCEPT !.pc = "done", !.j = 0]
    ELSE IF f.j + 1 < f.stars
         THEN [f EXCEPT !.j = f.j + 1]
         ELSE [f EXCEPT !.pc = "done", !.j = 0]

(* The program is inside one of the do-while loops. *)
InLoop == fill.pc \in {"blocks", "stars"}

(* The state at line 229: the board cleared, the ship placed, row 2 next. *)
InitDraw ==
    /\ board = [ClearedBoard EXCEPT ![4][0] = SHIP]
    /\ rng = [seed |-> 1, pos |-> 0]
    /\ ship_x = 4
    /\ ship_y = 0
    /\ score = InitScore
    /\ lives = MaxLives
    /\ game_over = InitGameOver
    /\ controls = NoControls
    /\ keys = NoKeys
    /\ call = [op |-> "Game", evt |-> NoEvent, ret |-> FALSE]
    /\ old = [board |-> board, ship_x |-> ship_x, ship_y |-> ship_y, score |-> score,
              lives |-> lives, game_over |-> game_over, controls |-> controls,
              rng |-> rng, keys |-> keys]
    /\ fill = [site |-> "Game", pc |-> "counts", row |-> 2,
               cells |-> [i \in Columns |-> board[i][2]],
               blocks |-> 0, stars |-> 0, j |-> 0, num |-> 0, last |-> "none"]

(* The draws leave the rest of the state alone. *)
DrawFrame ==
    UNCHANGED <<board, ship_x, ship_y, score, lives, game_over, controls, rng, call, old,
                keys>>

(* int blocks = rand()%3+1; int stars = rand()%2; and, in update, the      *)
(* clearing of row 8 *)
DrawCounts(v, w) ==
    /\ fill.pc = "counts"
    /\ fill' = [fill EXCEPT !.pc = "blocks",
                            !.blocks = BlocksDrawn(v),
                            !.stars = StarsDrawn(w),
                            !.j = 0,
                            !.cells = IF fill.site = "update" THEN EmptyRow ELSE @]
    /\ DrawFrame

(* num = rand() % 9; while (board[num][row] != -1): the cell is taken, the *)
(* loop draws again *)
DrawReject(v) ==
    /\ InLoop
    /\ fill.cells[ColumnDrawn(v)] # EMPTY
    /\ fill' = [fill EXCEPT !.num = ColumnDrawn(v), !.last = "reject"]
    /\ DrawFrame

(* num = rand() % 9; the cell is EMPTY: board[num][row] = 2 (or 1) *)
DrawAccept(v) ==
    /\ InLoop
    /\ fill.cells[ColumnDrawn(v)] = EMPTY
    /\ fill' = AfterPlacing([fill EXCEPT
                                !.cells[ColumnDrawn(v)] =
                                    IF fill.pc = "blocks" THEN BLOCK ELSE STAR,
                                !.num = ColumnDrawn(v),
                                !.last = "accept"])
    /\ DrawFrame

(* i++ in the constructor's loop over rows 2..8: the next row, untouched   *)
(* since the board was cleared *)
NextRow ==
    /\ fill.pc = "done"
    /\ fill.site = "Game"
    /\ fill.row + 1 < board_size_y
    /\ fill' = [fill EXCEPT !.pc = "counts", !.row = fill.row + 1,
                            !.cells = [i \in Columns |-> board[i][fill.row + 1]],
                            !.last = "none"]
    /\ DrawFrame

(* An update in which the ship moves: row 8, as the last population left   *)
(* it, is populated again. *)
NextRespawn ==
    /\ fill.pc = "done"
    /\ fill.site = "update" \/ (fill.site = "Game" /\ fill.row + 1 = board_size_y)
    /\ fill' = [fill EXCEPT !.site = "update", !.pc = "counts", !.row = 8,
                            !.last = "none"]
    /\ DrawFrame

NextDraw ==
    \/ \E v, w \in RawValues : DrawCounts(v, w)
    \/ \E v \in RawValues : DrawReject(v)
    \/ \E v \in RawValues : DrawAccept(v)
    \/ NextRow
    \/ NextRespawn

(* Fair draws: a generator that could return the column of an EMPTY cell   *)
(* at every draw does not avoid it forever.                                *)
FairDraw ==
    InitDraw /\ [][NextDraw]_vars /\ WF_vars(\E v \in RawValues : DrawAccept(v))

----------------------------------------------------------------------------
(* What the properties below speak about. *)

AfterUpdate == call.op = "update"

AfterEvent == call.op = "handle_event"

(* The last call was an update in which the ship moved. *)
Moved == AfterUpdate /\ ship_x # old.ship_x

Count(b, row, kind) == Cardinality({i \in Columns : b[i][row] = kind})

(* grid, ship_x, score and lives are as they were when the last call began *)
Untouched ==
    /\ board = old.board
    /\ ship_x = old.ship_x
    /\ score = old.score
    /\ lives = old.lives

----------------------------------------------------------------------------
(* C1: in every state between calls exactly one cell of row 0 holds SHIP,  *)
(* its column is ship_x, and 0 <= ship_x <= 8.                             *)
C1_ShipInRowZero ==
    /\ ship_x \in 0 .. 8
    /\ {i \in Columns : board[i][0] = SHIP} = {ship_x}

(* the ship has been moved by an update and stands on the left edge *)
C1_Witness == Moved /\ ship_x = 0 /\ old.ship_x = 1

(* C2: once game_over is set it stays set, and an update entered with      *)
(* game_over set leaves grid, ship_x, score and lives as they were,        *)
(* whatever is pending.                                                    *)
C2_GameOverAbsorbing ==
    /\ old.game_over = 1 => game_over = 1
    /\ (AfterUpdate /\ old.game_over = 1) => Untouched

(* an update entered with game_over set, a direction pending and room to move *)
C2_Witness ==
    /\ AfterUpdate
    /\ old.game_over = 1
    /\ old.controls.left
    /\ old.ship_x # 0
    /\ old.lives = 0

(* C3 as stated: an update entered with left pending at ship_x = 0, or     *)
(* with right pending at ship_x = 8, changes nothing.                      *)
C3_BoundaryAsStated ==
    (AfterUpdate /\ ((old.controls.left /\ old.ship_x = 0)
                     \/ (old.controls.right /\ old.ship_x = 8)))
        => Untouched

(* C3 amended: an update entered with only left pending at ship_x = 0, or  *)
(* with only right pending at ship_x = 8, changes neither the grid (no     *)
(* shift, no respawn) nor ship_x, score or lives.                          *)
C3_BoundaryOnlyDirection ==
    (AfterUpdate /\ ((old.controls.left /\ ~old.controls.right /\ old.ship_x = 0)
                     \/ (old.controls.right /\ ~old.controls.left /\ old.ship_x = 8)))
        => Untouched

(* a live game took an update with only right pending on the right edge *)
C3_Witness ==
    /\ AfterUpdate
    /\ old.game_over # 1
    /\ old.controls.right
    /\ ~old.controls.left
    /\ old.ship_x = 8

(* C4: an update entered with neither direction pending leaves grid,       *)
(* ship_x, score and lives as they were.                                   *)
C4_IdleTick ==
    (AfterUpdate /\ ~old.controls.left /\ ~old.controls.right) => Untouched

(* a live game, already under way, took an update with nothing pending *)
C4_Witness ==
    /\ AfterUpdate
    /\ old.game_over # 1
    /\ old.controls = NoControls
    /\ old.score > 0
    /\ \E i \in Columns : old.board[i][1] = BLOCK

(* C5: between calls each of rows 2..8 holds at most one STAR and at most  *)
(* three BLOCKs.                                                           *)
C5_RowsTwoToEight ==
    \A j \in 2 .. 8 : Count(board, j, STAR) <= 1 /\ Count(board, j, BLOCK) <= 3

(* after a respawn, a full row (three BLOCKs and a STAR) stands in row 8 *)
C5_Witness == Moved /\ Count(board, 8, BLOCK) = 3 /\ Count(board, 8, STAR) = 1

(* C6: in an update in which the ship moves, the cell of row 1 at the new  *)
(* column, as it was before the shift, decides: STAR, score + 1 and lives  *)
(* unchanged; BLOCK, lives - 1 and score unchanged, game_over set when     *)
(* lives becomes 0; EMPTY, neither changes.                                *)
C6_Collision ==
    Moved =>
        LET ahead == old.board[ship_x][1]
        IN  /\ ahead = STAR => (score = old.score + 1 /\ lives = old.lives)
            /\ ahead = BLOCK => /\ lives = old.lives - 1
                                /\ score = old.score
                                /\ (lives = 0 => game_over = 1)
            /\ ahead = EMPTY => (score = old.score /\ lives = old.lives)

(* the ship, stars already collected, moved under a BLOCK and lost its last life *)
C6_Witness ==
    /\ Moved
    /\ old.board[ship_x][1] = BLOCK
    /\ lives = 0
    /\ score > 0

(* C7: an update that brings score from 48 to 49 ends with game_over set,  *)
(* and score never exceeds 49.                                             *)
C7_Win ==
    /\ (AfterUpdate /\ old.score = 48 /\ score = 49) => game_over = 1
    /\ score <= 49

(* the 49th star was collected with lives left *)
C7_Witness ==
    /\ Moved
    /\ old.score = 48
    /\ score = 49
    /\ lives > 0
    /\ old.game_over = 0

(* C8: after an update in which the ship moves, row k is the row k + 1 of  *)
(* before for every k in 1..7, and row 0 holds the ship and nothing else.  *)
C8_RowShift ==
    Moved =>
        /\ \A k \in 1 .. 7 : \A i \in Columns : board[i][k] = old.board[i][k + 1]
        /\ \A i \in Columns : board[i][0] = IF i = ship_x THEN SHIP ELSE EMPTY

(* a shift that discarded a populated row 1 and brought a different row 2 down *)
C8_Witness ==
    /\ Moved
    /\ \E i \in Columns : old.board[i][1] = BLOCK /\ board[i][1] = EMPTY
    /\ \E i \in Columns : old.board[i][2] = STAR /\ board[i][1] = STAR

(* C9: after an update in which the ship moves, row 8 holds 1 to 3 BLOCKs, *)
(* 0 or 1 STAR and EMPTY in every other cell, whatever it held before.     *)
C9_Respawn ==
    Moved =>
        /\ Count(board, 8, BLOCK) \in 1 .. 3
        /\ Count(board, 8, STAR) \in 0 .. 1
        /\ Count(board, 8, EMPTY)
               = board_size_x - Count(board, 8, BLOCK) - Count(board, 8, STAR)

(* a row 8 of three BLOCKs and a STAR was replaced by one with a single BLOCK *)
C9_Witness ==
    /\ Moved
    /\ Count(old.board, 8, BLOCK) = 3
    /\ Count(old.board, 8, STAR) = 1
    /\ Count(board, 8, BLOCK) = 1
    /\ \E i \in Columns : old.board[i][8] # EMPTY /\ board[i][8] = EMPTY

(* C10: handle_event on a non-repeat left (right) key-down sets left       *)
(* (right), on a left (right) key-up clears it, returns true and leaves    *)
(* the other flag; on an auto-repeat key-down or any other event it        *)
(* returns false and leaves both flags; it never changes grid, ship_x,     *)
(* score, lives or game_over.                                              *)
C10_HandleEvent ==
    AfterEvent =>
        LET e == call.evt
            down == e.type = "SDL_KEYDOWN" /\ e.repeat = 0
            up == e.type = "SDL_KEYUP"
            isLeft == e.scancode = "SDL_SCANCODE_LEFT"
            isRight == e.scancode = "SDL_SCANCODE_RIGHT"
        IN  /\ (down /\ isLeft) =>
                   (controls.left /\ call.ret /\ controls.right = old.controls.right)
            /\ (up /\ isLeft) =>
                   (~controls.left /\ call.ret /\ controls.right = old.controls.right)
            /\ (down /\ isRight) =>
                   (controls.right /\ call.ret /\ controls.left = old.controls.left)
            /\ (up /\ isRight) =>
                   (~controls.right /\ call.ret /\ controls.left = old.controls.left)
            /\ ~((down \/ up) /\ (isLeft \/ isRight)) =>
                   (~call.ret /\ controls = old.controls)
            /\ Untouched
            /\ game_over = old.game_over

(* a fresh left key-down arrived while right was pending: both are pending now *)
C10_Witness ==
    /\ AfterEvent
    /\ call.evt = [type |-> "SDL_KEYDOWN", repeat |-> 0, scancode |-> "SDL_SCANCODE_LEFT"]
    /\ old.controls = [left |-> FALSE, right |-> TRUE]
    /\ controls = [left |-> TRUE, right |-> TRUE]
    /\ call.ret

(* C11 as stated: after any update both flags are false. *)
C11_FlagsClearedAsStated == AfterUpdate => (~controls.left /\ ~controls.right)

(* C11 amended: after an update entered with game_over not set both flags  *)
(* are false; an update entered with game_over set returns at once and     *)
(* leaves both flags as they were.                                         *)
C11_FlagsClearedUnlessOver ==
    /\ (AfterUpdate /\ old.game_over # 1) => (~controls.left /\ ~controls.right)
    /\ (AfterUpdate /\ old.game_over = 1) => controls = old.controls

(* a live game on the left edge took an update with left pending: no move, *)
(* and the flag is gone                                                    *)
C11_Witness ==
    /\ AfterUpdate
    /\ old.game_over = 0
    /\ old.controls = [left |-> TRUE, right |-> FALSE]
    /\ old.ship_x = 0
    /\ ~controls.left

(* C12: after construction ship_x = 4, (4, 0) is SHIP, every other cell of *)
(* rows 0 and 1 is EMPTY, and each of rows 2..8 holds 1 to 3 BLOCKs, 0 or  *)
(* 1 STAR and EMPTY elsewhere.                                             *)
C12_AfterConstruction ==
    call.op = "Game" =>
        /\ ship_x = 4
        /\ board[4][0] = SHIP
        /\ \A i \in Columns : \A j \in 0 .. 1 :
               (i # 4 \/ j # 0) => board[i][j] = EMPTY
        /\ \A j \in 2 .. 8 :
               /\ Count(board, j, BLOCK) \in 1 .. 3
               /\ Count(board, j, STAR) \in 0 .. 1
               /\ Count(board, j, EMPTY)
                      = board_size_x - Count(board, j, BLOCK) - Count(board, j, STAR)

(* a constructed board with a single BLOCK in row 2 and a full row        *)
(* (3 BLOCKs, 1 STAR) in row 3                                             *)
C12_Witness ==
    /\ call.op = "Game"
    /\ Count(board, 3, BLOCK) = 3 /\ Count(board, 3, STAR) = 1
    /\ Count(board, 2, BLOCK) = 1

(* The boards the constructor can leave. *)
InitialBoards == {Game([seed |-> sd, pos |-> 0]).board : sd \in Seeds}

(* C13: the first update in which the ship moves leaves score and lives    *)
(* unchanged, whatever rows 2..8 hold.                                     *)
C13_FirstMove ==
    (Moved /\ old.board \in InitialBoards) => (score = old.score /\ lives = old.lives)

(* the first move went right from 4 to 5, under a STAR standing in row 2 *)
C13_Witness ==
    /\ Moved
    /\ old.board \in InitialBoards
    /\ old.ship_x = 4
    /\ ship_x = 5
    /\ old.board[5][2] = STAR

(* The rows have moved down by one / have not moved. *)
ShiftedOnce == \A k \in 1 .. 7 : \A i \in Columns : board[i][k] = old.board[i][k + 1]

(* The cells of the row being populated that hold a BLOCK or a STAR. *)
Obstacles == Cardinality({i \in Columns : fill.cells[i] # EMPTY})

(* C14: every rejection-sampling loop ends under fair draws: whenever a    *)
(* column is about to be drawn the row has an EMPTY cell, a row being      *)
(* populated never holds more than 4 obstacles, and the program leaves     *)
(* every loop it enters.                                                   *)
C14_LoopsTerminate ==
    /\ [](InLoop => \E i \in Columns : fill.cells[i] = EMPTY)
    /\ [](fill.pc # "counts" => Obstacles <= 4)
    /\ (InLoop ~> fill.pc = "done")

(* a respawn of row 8 has placed its three BLOCKs and its draw for the     *)
(* STAR has just been rejected                                             *)
C14_Witness ==
    /\ fill.site = "update"
    /\ fill.pc = "stars"
    /\ fill.blocks = 3
    /\ Obstacles = 3
    /\ fill.last = "reject"

(* C15: an update entered with an arrow key held (its non-repeat key-down   *)
(* was followed by an update, and since then only updates and its          *)
(* auto-repeat key-downs came) and the other arrow key held or quiet       *)
(* leaves grid, ship_x, score and lives as they were and draws nothing;    *)
(* an update moves the ship only in a direction whose last key event       *)
(* since the update before is a non-repeat key-down.                       *)
C15_SingleShot ==
    AfterUpdate =>
        /\ ( /\ old.keys.left \in {"held", "none"}
             /\ old.keys.right \in {"held", "none"}
             /\ "held" \in {old.keys.left, old.keys.right} )
           => (Untouched /\ rng = old.rng)
        /\ ship_x < old.ship_x => old.keys.left = "down"
        /\ ship_x > old.ship_x => old.keys.right = "down"

(* the left key, held since it moved the ship, auto-repeats and the next   *)
(* update of the running game moves nothing                                *)
C15_Witness ==
    /\ AfterUpdate
    /\ old.keys = [left |-> "held", right |-> "none"]
    /\ old.game_over = 0
    /\ old.ship_x < 4
    /\ Untouched

(* C16 as stated: an update changes ship_x by at most 1; with both         *)
(* directions pending the ship moves left if ship_x > 0 and right if       *)
(* ship_x = 0; the rows shift once when ship_x changes and not otherwise.  *)
C16_ArbitrationAsStated ==
    AfterUpdate =>
        /\ ship_x - old.ship_x \in {-1, 0, 1}
        /\ (old.controls.left /\ old.controls.right) =>
               ship_x = IF old.ship_x > 0 THEN old.ship_x - 1 ELSE old.ship_x + 1
        /\ ship_x # old.ship_x => ShiftedOnce
        /\ ship_x = old.ship_x => board = old.board

(* C16 amended: the same, the rule for both directions pending holding in  *)
(* an update entered with game_over not set.                               *)
C16_Arbitration ==
    AfterUpdate =>
        /\ ship_x - old.ship_x \in {-1, 0, 1}
        /\ (old.game_over # 1 /\ old.controls.left /\ old.controls.right) =>
               ship_x = IF old.ship_x > 0 THEN old.ship_x - 1 ELSE old.ship_x + 1
        /\ ship_x # old.ship_x => ShiftedOnce
        /\ ship_x = old.ship_x => board = old.board

(* both directions were pending on the right edge and the ship went left *)
C16_Witness ==
    /\ AfterUpdate
    /\ old.controls = [left |-> TRUE, right |-> TRUE]
    /\ old.ship_x = 8
    /\ ship_x = 7
    /\ board # old.board

(* C17: an update entered with an arrow key tapped (a non-repeat key-down   *)
(* and then its key-up since the update before) and the other direction    *)
(* not pending leaves grid, ship_x, score and lives as they were and       *)
(* draws nothing.                                                          *)
C17_LostTap ==
    /\ ( /\ AfterUpdate
         /\ old.keys.left = "tap"
         /\ ~old.controls.right ) => (Untouched /\ rng = old.rng)
    /\ ( /\ AfterUpdate
         /\ old.keys.right = "tap"
         /\ ~old.controls.left ) => (Untouched /\ rng = old.rng)

(* the right key is tapped between two updates of a game under way *)
C17_Witness ==
    /\ AfterUpdate
    /\ old.keys.right = "tap"
    /\ ~old.controls.left
    /\ old.game_over = 0
    /\ score > 0
    /\ Untouched

(* C18: between calls game_over is set exactly when lives = 0 or           *)
(* score = 49; 0 <= score <= 49 and lives >= 0; no call lowers score or    *)
(* raises lives.                                                           *)
C18_Terminal ==
    /\ game_over = 1 <=> (lives = 0 \/ score = 49)
    /\ score \in 0 .. 49
    /\ lives >= 0
    /\ score >= old.score
    /\ lives <= old.lives

(* the last life was lost one star short of the win *)
C18_Witness ==
    /\ AfterUpdate
    /\ old.game_over = 0
    /\ game_over = 1
    /\ lives = 0
    /\ score = 48

(* C19: every cell holds EMPTY, SHIP, STAR or BLOCK; rows 1..8 hold no     *)
(* SHIP; row 0 holds no STAR and no BLOCK; row 1 holds at most one STAR    *)
(* and at most three BLOCKs.                                               *)
C19_Zoning ==
    /\ \A i \in Columns : \A j \in Rows : board[i][j] \in {EMPTY, SHIP, STAR, BLOCK}
    /\ \A i \in Columns : \A j \in 1 .. 8 : board[i][j] # SHIP
    /\ \A i \in Columns : board[i][0] \notin {STAR, BLOCK}
    /\ Count(board, 1, STAR) <= 1
    /\ Count(board, 1, BLOCK) <= 3

(* a full row (3 BLOCKs, 1 STAR) has come down to row 1, next to the ship's row *)
C19_Witness ==
    /\ Moved
    /\ Count(board, 1, BLOCK) = 3
    /\ Count(board, 1, STAR) = 1
    /\ \E i \in Columns : board[i][1] = BLOCK /\ board[i][0] = SHIP

=============================================================================
